---- MODULE Spec2Model ----
(***************************************************************************)
(* A model of app.py, the NSE stock analysis script: one top-to-bottom run *)
(* of the script over a downloaded price table (sanitizing, pivot          *)
(* detection, SMA/RSI, the buy-strength meter, the horizon signals, the    *)
(* CSV export and the indicator columns appended after it), and the        *)
(* script's three functions applied to drawn arguments.                    *)
(*                                                                         *)
(* Numbers are pandas/numpy float64 values modelled as exact rationals     *)
(* extended with NaN and +/-inf; rounding error is not modelled.           *)
(***************************************************************************)
EXTENDS Integers, Sequences, FiniteSets, TLC

VARIABLES
    pc,                 \* position of the script run
    raw,                \* the table yf.download returned: [cols, rows]
    data,               \* the DataFrame `data`: a sequence of rows
    columns,            \* the column labels of `data`
    support_lvls,       \* result of find_support_resistance(data)
    resistance_lvls,
    latest_rsi,
    sma_diff,
    score,
    meter,
    return_1d,
    return_7d,
    return_30d,
    latest_close,
    avg_volume,
    vol_now,
    intraday_signal,
    short_term_signal,
    long_term_signal,
    csv,                \* the column labels serialized by data.to_csv
    shown,              \* what the run has put on the page so far
    call,               \* a function call with drawn arguments
    ret                 \* its return value

vars == <<pc, raw, data, columns, support_lvls, resistance_lvls, latest_rsi,
          sma_diff, score, meter, return_1d, return_7d, return_30d,
          latest_close, avg_volume, vol_now, intraday_signal,
          short_term_signal, long_term_signal, csv, shown, call, ret>>

runVars == <<pc, raw, data, columns, support_lvls, resistance_lvls, latest_rsi,
             sma_diff, score, meter, return_1d, return_7d, return_30d,
             latest_close, avg_volume, vol_now, intraday_signal,
             short_term_signal, long_term_signal, csv, shown>>

-----------------------------------------------------------------------------
(* Bounds of the inputs                                                    *)

MaxBars == 5          \* longest series handed to find_support_resistance
MaxWindow == 2        \* largest window handed to find_support_resistance
MaxPrice == 2         \* lows 1..MaxPrice of the drawn bars, SMA levels 1..MaxPrice
MaxRows == 3          \* longest downloaded table with missing cells
MaxSegs == 2          \* number of constant-slope segments of a long series
StartPrice == 1000    \* first close of a long series

-----------------------------------------------------------------------------
(* float64 values: NaN, +/-inf, or a rational n/d with d > 0               *)

Abs(x) == IF x < 0 THEN -x ELSE x

RECURSIVE GCD(_, _)
GCD(a, b) == IF b = 0 THEN a ELSE GCD(b, a % b)

NaN == [k |-> "nan", n |-> 0, d |-> 1]
Inf(s) == [k |-> "inf", n |-> s, d |-> 1]
Num(n, d) ==
    LET s == IF d < 0 THEN -1 ELSE 1
        g == GCD(Abs(n), Abs(d))
    IN  [k |-> "num", n |-> (s * n) \div g, d |-> (s * d) \div g]
Int2F(n) == [k |-> "num", n |-> n, d |-> 1]

IsNaN(x) == x.k = "nan"
IsNum(x) == x.k = "num"
Sgn(x) == IF x.n > 0 THEN 1 ELSE IF x.n < 0 THEN -1 ELSE 0

FNeg(a) == IF IsNaN(a) THEN NaN ELSE [a EXCEPT !.n = -a.n]

FAdd(a, b) ==
    IF IsNaN(a) \/ IsNaN(b) THEN NaN
    ELSE IF a.k = "inf" /\ b.k = "inf" THEN (IF a.n = b.n THEN a ELSE NaN)
    ELSE IF a.k = "inf" THEN a
    ELSE IF b.k = "inf" THEN b
    ELSE Num(a.n * b.d + b.n * a.d, a.d * b.d)

FSub(a, b) == FAdd(a, FNeg(b))

FMul(a, b) ==
    IF IsNaN(a) \/ IsNaN(b) THEN NaN
    ELSE IF a.k = "inf" \/ b.k = "inf"
         THEN (IF Sgn(a) * Sgn(b) = 0 THEN NaN ELSE Inf(Sgn(a) * Sgn(b)))
    ELSE Num(a.n * b.n, a.d * b.d)

(* numpy float division: x/0 is +/-inf for x # 0 and NaN for x = 0; nothing *)
(* is raised.                                                               *)
FDivNaNOnZero(a, b) ==
    IF IsNaN(a) \/ IsNaN(b) THEN NaN
    ELSE IF a.k = "inf" /\ b.k = "inf" THEN NaN
    ELSE IF a.k = "inf" THEN Inf(IF Sgn(b) < 0 THEN -a.n ELSE a.n)
    ELSE IF b.k = "inf" THEN Int2F(0)
    ELSE IF b.n = 0 THEN NaN
    ELSE Num(a.n * b.d, a.d * b.n)

FDiv(a, b) ==
    IF IsNaN(a) \/ IsNaN(b) THEN NaN
    ELSE IF a.k = "inf" /\ b.k = "inf" THEN NaN
    ELSE IF a.k = "inf" THEN Inf(IF Sgn(b) < 0 THEN -a.n ELSE a.n)
    ELSE IF b.k = "inf" THEN Int2F(0)
    ELSE IF b.n = 0 THEN (IF a.n = 0 THEN NaN ELSE Inf(Sgn(a)))
    ELSE Num(a.n * b.d, a.d * b.n)

(* a < b on floats: False whenever either side is NaN                       *)
FLt(a, b) ==
    IF IsNaN(a) \/ IsNaN(b) THEN FALSE
    ELSE IF IsNum(a) /\ IsNum(b) THEN a.n * b.d < b.n * a.d
    ELSE IF a.k = "inf" /\ b.k = "inf" THEN a.n < b.n
    ELSE IF a.k = "inf" THEN a.n < 0
    ELSE b.n > 0

FGt(a, b) == FLt(b, a)

(* positional access, s.iloc[i] / s[i] with a 0-based i                     *)
Iloc(s, i) == s[i + 1]

Column(df, c) == [i \in 1..Len(df) |-> df[i][c]]

-----------------------------------------------------------------------------
(* find_support_resistance(df, window)                                     *)

(* a support test with <= for <, which lets a tie through                   *)
IsSupportNonStrict(lows, i, window) ==
    \A j \in 1..(window - 1) :
        ~FGt(Iloc(lows, i), Iloc(lows, i - j)) /\ ~FGt(Iloc(lows, i), Iloc(lows, i + j))

(* all(lows[i] < lows[i-j] and lows[i] < lows[i+j] for j in range(1, window)) *)
IsSupport(lows, i, window) ==
    \A j \in 1..(window - 1) :
        FLt(Iloc(lows, i), Iloc(lows, i - j)) /\ FLt(Iloc(lows, i), Iloc(lows, i + j))

(* all(highs[i] > highs[i-j] and highs[i] > highs[i+j] for j in range(1, window)) *)
IsResistance(highs, i, window) ==
    \A j \in 1..(window - 1) :
        FGt(Iloc(highs, i), Iloc(highs, i - j)) /\ FGt(Iloc(highs, i), Iloc(highs, i + j))

(* the indices `range(window, len(df) - window)` visits, in order           *)
LoopRange(df, window) ==
    [k \in 1..(IF Len(df) - 2 * window > 0 THEN Len(df) - 2 * window ELSE 0) |->
        window + k - 1]

(* the (df.index[i], value) pairs appended for the indices that pass `test` *)
Levels(df, c, idx) == [k \in 1..Len(idx) |-> <<Iloc(df, idx[k]).Date, Iloc(df, idx[k])[c]>>]

find_support_resistance(df, window) ==
    LET highs == Column(df, "High")
        lows == Column(df, "Low")
        visited == LoopRange(df, window)
    IN  [support |->
            Levels(df, "Low", SelectSeq(visited, LAMBDA i : IsSupport(lows, i, window))),
         resistance |->
            Levels(df, "High", SelectSeq(visited, LAMBDA i : IsResistance(highs, i, window)))]

-----------------------------------------------------------------------------
(* Calls of find_support_resistance with drawn arguments                   *)

NoCall == [fn |-> "none"]
NoRet == [done |-> FALSE]

Bar(t, lo, hi) == [Date |-> t, Low |-> Int2F(lo), High |-> Int2F(hi)]

(* bars with low <= high: a flat bar, or one spanning two price steps       *)
BarShapes == {<<lo, lo + sp>> : lo \in 1..MaxPrice, sp \in {0, 2}}

RECURSIVE SeqsUpTo(_, _)
SeqsUpTo(S, n) ==
    IF n = 0 THEN {<<>>}
    ELSE LET shorter == SeqsUpTo(S, n - 1)
         IN  shorter \cup {Append(s, x) : s \in {t \in shorter : Len(t) = n - 1}, x \in S}

PivotInputs ==
    {[i \in 1..Len(s) |-> Bar(i, s[i][1], s[i][2])] : s \in SeqsUpTo(BarShapes, MaxBars)}

IdleRun ==
    /\ pc = "idle"
    /\ raw = [cols |-> {}, rows |-> <<>>]
    /\ data = <<>>
    /\ columns = {}
    /\ support_lvls = <<>>
    /\ resistance_lvls = <<>>
    /\ latest_rsi = NaN
    /\ sma_diff = NaN
    /\ score = 0
    /\ meter = "unset"
    /\ return_1d = NaN
    /\ return_7d = NaN
    /\ return_30d = NaN
    /\ latest_close = NaN
    /\ avg_volume = NaN
    /\ vol_now = NaN
    /\ intraday_signal = "unset"
    /\ short_term_signal = "unset"
    /\ long_term_signal = "unset"
    /\ csv = {}
    /\ shown = {}

InitPivot ==
    /\ IdleRun
    /\ \E df \in PivotInputs, w \in 1..MaxWindow :
          call = [fn |-> "find_support_resistance", df |-> df, window |-> w]
    /\ ret = NoRet

CallPivot ==
    /\ call.fn = "find_support_resistance"
    /\ ~ret.done
    /\ ret' = [done |-> TRUE, val |-> find_support_resistance(call.df, call.window)]
    /\ UNCHANGED <<call, runVars>>

NextPivot == CallPivot

SpecPivot == InitPivot /\ [][NextPivot]_vars

(* Properties of find_support_resistance                                   *)

PivotDates(levels) == {levels[k][1] : k \in 1..Len(levels)}
BothDates == PivotDates(ret.val.support) \cap PivotDates(ret.val.resistance)
Interior(df, w) == {i \in 0..(Len(df) - 1) : w <= i /\ i < Len(df) - w}
LowAt(df, i) == Iloc(df, i).Low.n
HighAt(df, i) == Iloc(df, i).High.n

(* C1: an interior index i is a support point iff low[i] is strictly less  *)
(* than low[i-j] and low[i+j] for every j in 1..w inclusive, and a         *)
(* resistance point iff high[i] is strictly greater than high[i-j] and     *)
(* high[i+j] for every j in 1..w inclusive.                                *)
C1_StrictExtremumOverFullWindow ==
    ret.done =>
        LET df == call.df
            w == call.window
        IN  \A i \in Interior(df, w) :
              /\ (Iloc(df, i).Date \in PivotDates(ret.val.support))
                    <=> (\A j \in 1..w : /\ LowAt(df, i) < LowAt(df, i - j)
                                          /\ LowAt(df, i) < LowAt(df, i + j))
              /\ (Iloc(df, i).Date \in PivotDates(ret.val.resistance))
                    <=> (\A j \in 1..w : /\ HighAt(df, i) > HighAt(df, i - j)
                                          /\ HighAt(df, i) > HighAt(df, i + j))

(* an index that is a strict low and a strict high over the whole window   *)
(* 1..w, where the detector's test over 1..w-1 and the full test agree     *)
FullExtremum(df, i, w) ==
    \A j \in 1..w :
        /\ LowAt(df, i) < LowAt(df, i - j) /\ LowAt(df, i) < LowAt(df, i + j)
        /\ HighAt(df, i) > HighAt(df, i - j) /\ HighAt(df, i) > HighAt(df, i + j)

-----------------------------------------------------------------------------
(* Program constants                                                       *)

DefaultWindow == 10   \* find_support_resistance(df, window=10)
SMAShort == 20        \* rolling(window=20)
SMALong == 50         \* rolling(window=50)
RSIWindow == 14       \* rolling(window=14)
NeutralRSI == 50      \* latest_rsi = 50  # Neutral fallback
VolumeWindow == 14    \* data["Volume"].rolling(14)

ohlc_cols == {"Open", "High", "Low", "Close"}
AllCols == ohlc_cols \cup {"Volume"}

-----------------------------------------------------------------------------
(* pandas Series operations, on sequences of float values                  *)

RECURSIVE SumN(_, _, _)
SumN(s, lo, hi) == IF lo > hi THEN 0 ELSE s[hi].n + SumN(s, lo, hi - 1)

AnyNaN(s, lo, hi) == \E j \in lo..hi : ~IsNum(s[j])

(* s.rolling(window=k).mean() of a series of integer-valued floats: no     *)
(* value until k observations are in the window, none if one is missing    *)
RollingMean(s, k) ==
    [i \in 1..Len(s) |->
        IF i < k \/ AnyNaN(s, i - k + 1, i) THEN NaN
        ELSE Num(SumN(s, i - k + 1, i), k)]

(* s.diff(): the first entry has no predecessor                            *)
Diff(s) == [i \in 1..Len(s) |-> IF i = 1 THEN NaN ELSE FSub(s[i], s[i - 1])]

(* s.pct_change(periods=p)                                                 *)
PctChange(s, p) ==
    [i \in 1..Len(s) |->
        IF i <= p THEN NaN ELSE FSub(FDiv(s[i], s[i - p]), Int2F(1))]

(* s.dropna()                                                              *)
DropNaSeries(s) == SelectSeq(s, LAMBDA x : ~IsNaN(x))

(* delta.where(delta > 0, 0): entries failing the test, NaN among them,    *)
(* become 0                                                                *)
Gain(delta) == [i \in 1..Len(delta) |->
                    IF FGt(delta[i], Int2F(0)) THEN delta[i] ELSE Int2F(0)]

(* -delta.where(delta < 0, 0)                                              *)
Loss(delta) == [i \in 1..Len(delta) |->
                    IF FLt(delta[i], Int2F(0)) THEN FNeg(delta[i]) ELSE Int2F(0)]

(* rs = avg_gain / avg_loss; 100 - (100 / (1 + rs))                        *)
RSIOf(avg_gain, avg_loss) ==
    FSub(Int2F(100), FDiv(Int2F(100), FAdd(Int2F(1), FDiv(avg_gain, avg_loss))))

RSI(close) ==
    LET delta == Diff(close)
        avg_gain == RollingMean(Gain(delta), RSIWindow)
        avg_loss == RollingMean(Loss(delta), RSIWindow)
    IN  [i \in 1..Len(close) |-> RSIOf(avg_gain[i], avg_loss[i])]

(* data[c] = values: a column added to, or replaced in, every row          *)
SetColumn(df, c, values) ==
    [i \in 1..Len(df) |-> [x \in (DOMAIN df[i]) \cup {c} |->
                              IF x = c THEN values[i] ELSE df[i][x]]]

(* round(x, 2), to the nearest hundredth                                   *)
Round2(x) ==
    IF ~IsNum(x) THEN x
    ELSE Num((2 * 100 * x.n + x.d) \div (2 * x.d), 100)

-----------------------------------------------------------------------------
(* The Series Sanitizer: data.dropna(subset=ohlc_cols)                     *)

RowComplete(row, subset) == \A c \in subset : ~IsNaN(row[c])

(* dropna() without the subset: a missing Volume drops the row as well     *)
DropNaAllColumns(df, subset) ==
    SelectSeq(df, LAMBDA row : RowComplete(row, DOMAIN row \ {"Date"}))

DropNa(df, subset) == SelectSeq(df, LAMBDA row : RowComplete(row, subset))

-----------------------------------------------------------------------------
(* The buy-strength meter                                                  *)

(* if data["RSI"].dropna().empty: 50 else data["RSI"].dropna().iloc[-1]    *)
LatestRSI(rsi) ==
    LET defined == DropNaSeries(rsi)
    IN  IF defined = <<>> THEN Int2F(NeutralRSI) ELSE defined[Len(defined)]

(* try: SMA20.iloc[-1] - SMA50.iloc[-1]  except: 0 -- iloc[-1] raises only *)
(* on an empty frame; a NaN operand raises nothing                         *)
SmaDiff(df) ==
    IF df = <<>> THEN Int2F(0)
    ELSE FSub(df[Len(df)].SMA20, df[Len(df)].SMA50)

(* the score with <= 50 for < 50                                           *)
BuyScoreInclusive(rsi, diff) ==
      (IF FLt(rsi, Int2F(30)) THEN 2 ELSE IF ~FGt(rsi, Int2F(50)) THEN 1 ELSE 0)
    + (IF FGt(diff, Int2F(0)) THEN 2 ELSE IF FGt(diff, Int2F(-5)) THEN 1 ELSE 0)

(* the score with the SMA thresholds tested in the wrong order             *)
BuyScoreSwapped(rsi, diff) ==
      (IF FLt(rsi, Int2F(30)) THEN 2 ELSE IF FLt(rsi, Int2F(50)) THEN 1 ELSE 0)
    + (IF FGt(diff, Int2F(-5)) THEN 1 ELSE IF FGt(diff, Int2F(0)) THEN 2 ELSE 0)

BuyScore(rsi, diff) ==
      (IF FLt(rsi, Int2F(30)) THEN 2 ELSE IF FLt(rsi, Int2F(50)) THEN 1 ELSE 0)
    + (IF FGt(diff, Int2F(0)) THEN 2 ELSE IF FGt(diff, Int2F(-5)) THEN 1 ELSE 0)

Meter(sc) ==
    IF sc >= 4 THEN "Strong Buy"
    ELSE IF sc >= 3 THEN "Buy"
    ELSE IF sc = 2 THEN "Hold"
    ELSE IF sc = 1 THEN "Weak Hold"
    ELSE "Sell"

-----------------------------------------------------------------------------
(* The signal functions                                                    *)

get_intraday_signal(ret_1d, vol_n, avg_vol) ==
    LET high_vol == FGt(vol_n, FMul(Num(3, 2), avg_vol))
    IN  IF FGt(ret_1d, Int2F(1)) /\ high_vol THEN "Buy (High Momentum)"
        ELSE IF FLt(ret_1d, Int2F(-1)) /\ high_vol THEN "Sell (High Drop)"
        ELSE "Hold"

(* the short-term rules with the Sell rule tested before the crossover     *)
ShortTermSellFirst(rsi, sma20, sma50, ret_7d) ==
    IF FLt(rsi, Int2F(30)) THEN "Buy (Oversold)"
    ELSE IF FGt(rsi, Int2F(70)) \/ FLt(ret_7d, Int2F(-1)) THEN "Sell"
    ELSE IF FGt(sma20, sma50) /\ FGt(ret_7d, Int2F(1)) THEN "Buy (Bullish Crossover)"
    ELSE "Hold"

get_short_term_signal(rsi, sma20, sma50, ret_7d) ==
    IF FLt(rsi, Int2F(30)) THEN "Buy (Oversold)"
    ELSE IF FGt(sma20, sma50) /\ FGt(ret_7d, Int2F(1)) THEN "Buy (Bullish Crossover)"
    ELSE IF FGt(rsi, Int2F(70)) \/ FLt(ret_7d, Int2F(-1)) THEN "Sell"
    ELSE "Hold"

get_long_term_signal(ret_30d, sma20, sma50, rsi) ==
    IF FGt(ret_30d, Int2F(5)) /\ FGt(sma20, sma50) /\ FLt(rsi, Int2F(70))
    THEN "Strong Buy (Uptrend)"
    ELSE IF FLt(ret_30d, Int2F(-5)) \/ FGt(rsi, Int2F(80)) THEN "Exit"
    ELSE "Hold"

(* x.iloc[-1] * 100 if not pd.isna(x.iloc[-1]) else 0                      *)
LatestPercent(col) ==
    LET x == col[Len(col)]
    IN  IF IsNaN(x) THEN Int2F(0) ELSE FMul(x, Int2F(100))

-----------------------------------------------------------------------------
(* The downloaded tables a run starts from                                 *)

(* a short table: row t trades at price t; `missing` are its empty cells   *)
ShortRow(t, missing, cols) ==
    [x \in cols \cup {"Date"} |->
        IF x = "Date" THEN t
        ELSE IF x \in missing THEN NaN
        ELSE IF x = "High" THEN Int2F(t + 1)
        ELSE IF x = "Volume" THEN Int2F(1000)
        ELSE Int2F(t)]

MissingCells == {{}} \cup {{c} : c \in AllCols}

ColumnSets == {AllCols, {}} \cup {AllCols \ {c} : c \in AllCols}

ShortTables ==
    {[cols |-> cs, rows |-> [t \in 1..Len(m) |-> ShortRow(t, m[t], cs)]] :
        cs \in ColumnSets, m \in SeqsUpTo(MissingCells, MaxRows)}

(* a long table: complete rows whose close moves by a constant step over   *)
(* each of up to MaxSegs segments                                          *)
SegLens == {13, 14, 59}
Steps == {-1, 0, 1}
Segments == {<<st, ln>> : st \in Steps, ln \in SegLens}

RECURSIVE Closes(_)
Closes(segs) ==
    IF segs = <<>> THEN <<StartPrice>>
    ELSE LET before == Closes(SubSeq(segs, 1, Len(segs) - 1))
             seg == segs[Len(segs)]
             last == before[Len(before)]
         IN  before \o [j \in 1..seg[2] |-> last + j * seg[1]]

LongRow(t, c) ==
    [Date |-> t, Open |-> Int2F(c), High |-> Int2F(c + 1), Low |-> Int2F(c - 1),
     Close |-> Int2F(c), Volume |-> Int2F(1000)]

LongTable(segs) ==
    LET cl == Closes(segs)
    IN  [cols |-> AllCols, rows |-> [t \in 1..Len(cl) |-> LongRow(t, cl[t])]]

LongTables == {LongTable(segs) : segs \in SeqsUpTo(Segments, MaxSegs) \ {<<>>}}

-----------------------------------------------------------------------------
(* One run of the script                                                   *)

Init ==
    /\ pc = "check_ohlc"
    /\ raw \in ShortTables \cup LongTables
    /\ data = raw.rows
    /\ columns = raw.cols
    /\ support_lvls = <<>>
    /\ resistance_lvls = <<>>
    /\ latest_rsi = NaN
    /\ sma_diff = NaN
    /\ score = 0
    /\ meter = "unset"
    /\ return_1d = NaN
    /\ return_7d = NaN
    /\ return_30d = NaN
    /\ latest_close = NaN
    /\ avg_volume = NaN
    /\ vol_now = NaN
    /\ intraday_signal = "unset"
    /\ short_term_signal = "unset"
    /\ long_term_signal = "unset"
    /\ csv = {}
    /\ shown = {}
    /\ call = NoCall
    /\ ret = NoRet

meterVars == <<latest_rsi, sma_diff, score, meter>>
metricVars == <<return_1d, return_7d, return_30d, latest_close, avg_volume, vol_now>>
signalVars == <<intraday_signal, short_term_signal, long_term_signal>>
pivotVars == <<support_lvls, resistance_lvls>>

(* lines 44-48: st.error and st.stop() when an OHLC column is absent       *)
CheckOHLC ==
    /\ pc = "check_ohlc"
    /\ IF ohlc_cols \subseteq columns
       THEN pc' = "dropna" /\ shown' = shown
       ELSE pc' = "stopped" /\ shown' = shown \cup {"error: Missing OHLC columns"}
    /\ UNCHANGED <<raw, data, columns, pivotVars, meterVars, metricVars,
                   signalVars, csv, call, ret>>

(* line 50                                                                 *)
Sanitize ==
    /\ pc = "dropna"
    /\ data' = DropNa(data, ohlc_cols)
    /\ pc' = "pivots"
    /\ UNCHANGED <<raw, columns, pivotVars, meterVars, metricVars, signalVars,
                   csv, shown, call, ret>>

(* line 64                                                                 *)
FindPivots ==
    /\ pc = "pivots"
    /\ LET r == find_support_resistance(data, DefaultWindow)
       IN  support_lvls' = r.support /\ resistance_lvls' = r.resistance
    /\ pc' = "indicators"
    /\ UNCHANGED <<raw, data, columns, meterVars, metricVars, signalVars,
                   csv, shown, call, ret>>

(* lines 69-79                                                             *)
ComputeIndicators ==
    /\ pc = "indicators"
    /\ LET close == Column(data, "Close")
           d1 == SetColumn(data, "SMA20", RollingMean(close, SMAShort))
           d2 == SetColumn(d1, "SMA50", RollingMean(close, SMALong))
       IN  data' = SetColumn(d2, "RSI", RSI(close))
    /\ columns' = columns \cup {"SMA20", "SMA50", "RSI"}
    /\ pc' = "charts"
    /\ UNCHANGED <<raw, pivotVars, meterVars, metricVars, signalVars,
                   csv, shown, call, ret>>

(* lines 82-141: the charts read data["Volume"], a KeyError without it     *)
DrawCharts ==
    /\ pc = "charts"
    /\ IF "Volume" \in columns
       THEN pc' = "meter" /\ shown' = shown \cup {"candlestick", "rsi_chart"}
       ELSE pc' = "crashed" /\ shown' = shown
    /\ UNCHANGED <<raw, data, columns, pivotVars, meterVars, metricVars,
                   signalVars, csv, call, ret>>

(* lines 144-187                                                           *)
BuyStrengthMeter ==
    /\ pc = "meter"
    /\ latest_rsi' = LatestRSI(Column(data, "RSI"))
    /\ sma_diff' = SmaDiff(data)
    /\ score' = BuyScore(latest_rsi', sma_diff')
    /\ meter' = Meter(score')
    /\ shown' = shown \cup {"meter", "summary"}
    /\ pc' = "returns"
    /\ UNCHANGED <<raw, data, columns, pivotVars, metricVars, signalVars,
                   csv, call, ret>>

(* the return columns and the latest values read from them; iloc[-1] of an *)
(* empty column raises IndexError, which nothing catches. `volatility`, a  *)
(* standard deviation that no signal reads, is not modelled.               *)
ReturnsAndLatest(next) ==
    LET close == Column(data, "Close")
        daily == PctChange(close, 1)
        week == PctChange(close, 7)
        month == PctChange(close, 30)
        d1 == SetColumn(data, "Daily Return", daily)
        d2 == SetColumn(d1, "7D Return", week)
    IN  /\ data' = SetColumn(d2, "30D Return", month)
        /\ columns' = columns \cup {"Daily Return", "7D Return", "30D Return"}
        /\ IF data = <<>>
           THEN /\ pc' = "crashed"
                /\ UNCHANGED metricVars
           ELSE /\ pc' = next
                /\ latest_close' = close[Len(close)]
                /\ return_1d' = LatestPercent(daily)
                /\ return_7d' = LatestPercent(week)
                /\ return_30d' = LatestPercent(month)
                /\ avg_volume' =
                      LET av == RollingMean(Column(data, "Volume"), VolumeWindow)
                      IN  Round2(av[Len(av)])
                /\ vol_now' = data[Len(data)].Volume

(* lines 190-200                                                           *)
ComputeReturns ==
    /\ pc = "returns"
    /\ ReturnsAndLatest("signals")
    /\ UNCHANGED <<raw, pivotVars, meterVars, signalVars, csv, shown, call, ret>>

(* lines 233-258                                                           *)
GenerateSignals ==
    /\ pc = "signals"
    /\ LET last == data[Len(data)]
       IN  /\ intraday_signal' = get_intraday_signal(return_1d, vol_now, avg_volume)
           /\ short_term_signal' =
                 get_short_term_signal(latest_rsi, last.SMA20, last.SMA50, return_7d)
           /\ long_term_signal' =
                 get_long_term_signal(return_30d, last.SMA20, last.SMA50, latest_rsi)
    /\ shown' = shown \cup {"signals", "line_charts"}
    /\ pc' = "csv"
    /\ UNCHANGED <<raw, data, columns, pivotVars, meterVars, metricVars,
                   csv, call, ret>>

(* lines 261-268: data.to_csv serializes the columns data has at this point *)
ExportCSV ==
    /\ pc = "csv"
    /\ csv' = columns
    /\ shown' = shown \cup {"download_button"}
    /\ pc' = "more_indicators"
    /\ UNCHANGED <<raw, data, columns, pivotVars, meterVars, metricVars,
                   signalVars, call, ret>>

(* lines 274-294: Bollinger and MACD columns are added (their values are   *)
(* not modelled); the RSI assigned here is a Series on a fresh 0..n-1      *)
(* index, which shares no label with data's date index, so every entry of  *)
(* the column becomes NaN                                                  *)
AppendIndicators ==
    /\ pc = "more_indicators"
    /\ LET close == Column(data, "Close")
           d1 == SetColumn(data, "SMA20", RollingMean(close, SMAShort))
       IN  data' = SetColumn(d1, "RSI", [i \in 1..Len(data) |-> NaN])
    /\ columns' = columns \cup {"BB_std", "BB_upper", "BB_lower",
                                "MACD", "MACD_signal", "MACD_hist"}
    /\ pc' = "metrics"
    /\ UNCHANGED <<raw, pivotVars, meterVars, metricVars, signalVars,
                   csv, shown, call, ret>>

(* lines 299-346                                                           *)
ShowMetrics ==
    /\ pc = "metrics"
    /\ ReturnsAndLatest("done")
    /\ shown' = shown \cup {"metrics", "news"}
    /\ UNCHANGED <<raw, pivotVars, meterVars, signalVars, csv, call, ret>>

Next ==
    \/ CheckOHLC
    \/ Sanitize
    \/ FindPivots
    \/ ComputeIndicators
    \/ DrawCharts
    \/ BuyStrengthMeter
    \/ ComputeReturns
    \/ GenerateSignals
    \/ ExportCSV
    \/ AppendIndicators
    \/ ShowMetrics

Spec == Init /\ [][Next]_vars

-----------------------------------------------------------------------------
(* Properties of a run                                                     *)

Sanitized == pc \notin {"check_ohlc", "dropna", "stopped"}

(* the meter has run and data["RSI"] is still the column it read           *)
MeterDone == "meter" \in shown /\ "BB_std" \notin columns

(* data["RSI"] holds the RSI of lines 73-79                                *)
RSIComputed == "RSI" \in columns /\ "BB_std" \notin columns

LastRow == data[Len(data)]

(* C3: whenever the RSI of the latest row is undefined, the scorer uses    *)
(* the neutral 50, whatever RSI earlier rows have.                         *)
C3_FallbackWhenLatestRsiUndefined ==
    (MeterDone /\ data # <<>> /\ IsNaN(LastRow.RSI)) => latest_rsi = Int2F(50)

C5_EmptySeriesProducesNothing ==
    (Sanitized /\ data = <<>>) =>
        /\ meter = "unset"
        /\ shown \cap {"meter", "summary", "signals", "metrics"} = {}

IndicatorColumns ==
    {"SMA20", "SMA50", "RSI", "BB_upper", "BB_lower", "MACD", "MACD_signal",
     "MACD_hist", "Daily Return", "7D Return", "30D Return"}

(* C6: the exported CSV holds every indicator column.                      *)
C6_CsvHoldsEveryIndicator ==
    "download_button" \in shown => IndicatorColumns \subseteq csv

(* the rows of the downloaded table with all four OHLC cells present; row  *)
(* i of the downloaded table carries the date i                            *)
KeptIdx ==
    {i \in 1..Len(raw.rows) :
        ~IsNaN(raw.rows[i].Open) /\ ~IsNaN(raw.rows[i].High)
        /\ ~IsNaN(raw.rows[i].Low) /\ ~IsNaN(raw.rows[i].Close)}

(* C8: with the OHLC columns present the sanitizer removes exactly the     *)
(* rows with a missing open, high, low or close, a missing volume removes  *)
(* nothing, kept rows keep their values and order; with an OHLC column     *)
(* absent the run stops with an error before any indicator is computed.    *)
C8_SanitizerKeepsCompleteRows ==
    /\ Sanitized =>
          /\ ohlc_cols \subseteq raw.cols
          /\ {data[k].Date : k \in 1..Len(data)} = KeptIdx
          /\ \A k \in 1..Len(data) : \A c \in raw.cols :
                data[k][c] = raw.rows[data[k].Date][c]
          /\ \A k \in 1..(Len(data) - 1) : data[k].Date < data[k + 1].Date
    /\ ~(ohlc_cols \subseteq raw.cols) =>
          /\ pc \in {"check_ohlc", "stopped"}
          /\ data = raw.rows /\ columns = raw.cols
          /\ pc = "stopped" => "error: Missing OHLC columns" \in shown
    /\ pc = "stopped" => ~(ohlc_cols \subseteq raw.cols)

(* a row was dropped, and a row without volume was kept next to another    *)
C8_Witness ==
    /\ Sanitized
    /\ "Volume" \in raw.cols
    /\ Len(data) >= 2
    /\ Len(data) < Len(raw.rows)
    /\ \E k \in 1..Len(data) : IsNaN(data[k].Volume)

CloseAt(i) == data[i].Close.n

(* the rows whose 14-period average loss is defined and exactly zero       *)
NoLossIdx ==
    {i \in RSIWindow..Len(data) :
        \A j \in (i - RSIWindow + 1)..i : j = 1 \/ CloseAt(j) >= CloseAt(j - 1)}

SomeGain(i) ==
    \E j \in (i - RSIWindow + 1)..i : j > 1 /\ CloseAt(j) > CloseAt(j - 1)

Rising60 == LongTable(<<<<1, 59>>>>)

-----------------------------------------------------------------------------
(* The scoring lines and get_short_term_signal on drawn arguments          *)

(* RSI values in halves around the thresholds 30, 50, 70 and at both ends  *)
RsiGrid ==
    {Num(n, 2) : n \in {0, 200} \cup 58..62 \cup 98..102 \cup 138..142}

(* SMA20 - SMA50 in halves around the thresholds -5 and 0                  *)
DiffGrid == {Num(n, 2) : n \in (-12)..2}

(* 7-day returns, in percent, in halves around -1 and 1                    *)
ReturnGrid == {Num(n, 2) : n \in (-3)..3}

SmaGrid == {Int2F(n) : n \in 1..MaxPrice}

ScoreCalls == {[fn |-> "score", latest_rsi |-> r, sma_diff |-> d] :
                  r \in RsiGrid, d \in DiffGrid}

ShortTermCalls ==
    {[fn |-> "get_short_term_signal", rsi |-> r, sma20 |-> a, sma50 |-> b, ret_7d |-> x] :
        r \in RsiGrid, a \in SmaGrid, b \in SmaGrid, x \in ReturnGrid}

InitSignals ==
    /\ IdleRun
    /\ call \in ScoreCalls \cup ShortTermCalls
    /\ ret = NoRet

(* lines 158-172 on the drawn latest_rsi and sma_diff                      *)
CallScore ==
    /\ call.fn = "score"
    /\ ~ret.done
    /\ LET sc == BuyScore(call.latest_rsi, call.sma_diff)
       IN  ret' = [done |-> TRUE, score |-> sc, meter |-> Meter(sc)]
    /\ UNCHANGED <<call, runVars>>

CallShortTerm ==
    /\ call.fn = "get_short_term_signal"
    /\ ~ret.done
    /\ ret' = [done |-> TRUE,
               val |-> get_short_term_signal(call.rsi, call.sma20, call.sma50, call.ret_7d)]
    /\ UNCHANGED <<call, runVars>>

NextSignals == CallScore \/ CallShortTerm

SpecSignals == InitSignals /\ [][NextSignals]_vars

(* x < c and x > c for a rational x and an integer c                       *)
Below(x, c) == x.n < c * x.d
Above(x, c) == x.n > c * x.d

(* C7: the score is (2 if RSI<30, else 1 if RSI<50, else 0) + (2 if the    *)
(* SMA difference > 0, else 1 if > -5, else 0), lies in 0..4, and maps to  *)
(* one label: 4 Strong Buy, 3 Buy, 2 Hold, 1 Weak Hold, 0 Sell.            *)
C7_ScoreAndLabel ==
    (ret.done /\ call.fn = "score") =>
        LET r == call.latest_rsi
            d == call.sma_diff
            rsiPart == IF Below(r, 30) THEN 2 ELSE IF Below(r, 50) THEN 1 ELSE 0
            smaPart == IF Above(d, 0) THEN 2 ELSE IF Above(d, -5) THEN 1 ELSE 0
        IN  /\ ret.score = rsiPart + smaPart
            /\ ret.score \in 0..4
            /\ ret.meter = CASE ret.score = 4 -> "Strong Buy"
                             [] ret.score = 3 -> "Buy"
                             [] ret.score = 2 -> "Hold"
                             [] ret.score = 1 -> "Weak Hold"
                             [] ret.score = 0 -> "Sell"

(* a score of 3 made of RSI in [30,50) and a positive SMA difference       *)
C7_Witness ==
    /\ ret.done /\ call.fn = "score"
    /\ ~Below(call.latest_rsi, 30) /\ Below(call.latest_rsi, 50)
    /\ Above(call.sma_diff, 0)
    /\ ret.score = 3 /\ ret.meter = "Buy"

(* C9: get_short_term_signal returns Buy (Oversold) if RSI<30; otherwise   *)
(* Buy (Bullish Crossover) if SMA20>SMA50 and the 7-day return > 1%;       *)
(* otherwise Sell if RSI>70 or the 7-day return < -1%; otherwise Hold.     *)
C9_ShortTermPriority ==
    (ret.done /\ call.fn = "get_short_term_signal") =>
        LET oversold == Below(call.rsi, 30)
            crossover == /\ call.sma20.n > call.sma50.n
                         /\ Above(call.ret_7d, 1)
            sell == Above(call.rsi, 70) \/ Below(call.ret_7d, -1)
        IN  /\ oversold => ret.val = "Buy (Oversold)"
            /\ (~oversold /\ crossover) => ret.val = "Buy (Bullish Crossover)"
            /\ (~oversold /\ ~crossover /\ sell) => ret.val = "Sell"
            /\ (~oversold /\ ~crossover /\ ~sell) => ret.val = "Hold"

(* a crossover that wins over RSI > 70                                     *)
C9_Witness ==
    /\ ret.done /\ call.fn = "get_short_term_signal"
    /\ Above(call.rsi, 70)
    /\ call.sma20.n > call.sma50.n /\ Above(call.ret_7d, 1)
    /\ ret.val = "Buy (Bullish Crossover)"

====
